---- MODULE Spec2Model ----
(***************************************************************************)
(* volk_32f_s32f_x2_clamp_32f: clamp every element of a float array to     *)
(* [min, max].  Five entry points: generic, a_sse4_1, u_sse4_1, a_avx2,    *)
(* u_avx2.  One call of one entry point is modelled, statement group by    *)
(* statement group, on a flat memory that holds both caller buffers.       *)
(*                                                                         *)
(* Scaling.  A float is modelled by a 4-bit IEEE-style pattern             *)
(* (sign | 2 exponent bits | 1 mantissa bit): +-0, +-0.5 (subnormal),      *)
(* +-1, +-1.5, +-2, +-3, +-Inf, +-NaN.  uint32_t is modelled by an         *)
(* unsigned integer of UintBits bits, so that num_points = UINT_MAX is a   *)
(* call the model can run to its end.                                      *)
(***************************************************************************)
EXTENDS Integers, Sequences, FiniteSets, TLC

\* ---------------------------------------------------------------- bounds
\* num_points ranges over 0..MaxPoints and the largest unsigned value.
MaxPoints == 9
\* Width of the modelled uint32_t.
UintBits == 4

\* ------------------------------------------------------------- constants
\* Lanes of a __m128 / __m256 register of floats.
SseWidth == 4
AvxWidth == 8

RECURSIVE Pow2(_)
Pow2(n) == IF n = 0 THEN 1 ELSE 2 * Pow2(n - 1)

UintMod == Pow2(UintBits)
UintMax == UintMod - 1

\* ----------------------------------------------------------------- float
Floats == 0..15
\* The bounds a call is made with: -1.5, -1, -0, +0, 1, 1.5, +Inf, NaN.
BoundFloats == {11, 10, 8, 0, 2, 3, 6, 7}

SignBit(f) == f \div 8
Magnitude(f) == f % 8
IsNaN(f) == Magnitude(f) = 7
\* The real number order of the non-NaN patterns; -0 and +0 coincide.
Key(f) == IF SignBit(f) = 1 THEN 0 - Magnitude(f) ELSE Magnitude(f)

\* C's a < b and a > b on float: false when an operand is NaN.
FLT_bug_unordered(a, b) == IsNaN(a) \/ IsNaN(b) \/ Key(a) < Key(b)
FLT(a, b) == ~IsNaN(a) /\ ~IsNaN(b) /\ Key(a) < Key(b)
FGT(a, b) == ~IsNaN(a) /\ ~IsNaN(b) /\ Key(a) > Key(b)

\* The named values of the documented example.
F_m2 == 12
F_m1_5 == 11
F_m1 == 10
F_1 == 2
F_1_5 == 3
F_2 == 4

\* ---------------------------------------------------------------- memory
\* Two caller buffers of BufCap floats each: [0, BufCap) and
\* [BufCap, 2*BufCap).  BufCap is a multiple of both vector widths.
BufCap == UintMod + AvxWidth
Addrs == 0..(2 * BufCap - 1)

\* Contents of memory at the call: a fixed sequence of all the patterns,
\* rotated by seed.  It starts with the documented example's input.
FloatSeq == <<12, 10, 2, 4, 7, 0, 8, 3, 11, 6, 14, 1, 9, 5, 13, 15>>
Seeds == {0, 1}
InitialMemory(seed) == [a \in Addrs |-> FloatSeq[((a + seed) % 16) + 1]]

Strategies == {"generic", "a_sse4_1", "u_sse4_1", "a_avx2", "u_avx2"}
Aligned == {"a_sse4_1", "a_avx2"}
Width(s) == IF s \in {"a_sse4_1", "u_sse4_1"} THEN SseWidth
            ELSE IF s \in {"a_avx2", "u_avx2"} THEN AvxWidth ELSE 1

NumPointsSet == (0..MaxPoints) \cup {UintMax}

\* ------------------------------------------------------- unsigned integers
UintAdd(a, b) == (a + b) % UintMod
UintMul_bug_narrow(a, b) == (a * b) % (UintMod \div 2)
UintMul(a, b) == (a * b) % UintMod
UintDiv_bug_ceil(a, b) == (a + b - 1) \div b
UintDiv(a, b) == a \div b

\* ------------------------------------------------------ scalar statement
\* (*in > max) ? max : (*in < min) ? min : *in
ScalarClamp_bug_ge(x, mn, mx) ==
    IF ~IsNaN(x) /\ ~IsNaN(mx) /\ Key(x) >= Key(mx) THEN mx
    ELSE IF FLT(x, mn) THEN mn ELSE x
ScalarClamp_bug_no_min(x, mn, mx) ==
    IF FGT(x, mx) THEN mx ELSE x
ScalarClamp(x, mn, mx) ==
    IF FGT(x, mx) THEN mx ELSE IF FLT(x, mn) THEN mn ELSE x

\* *out++ = ... : one store to *out of a value computed from *in.
ScalarStore_bug_two_pass(m, po, pi, mn, mx) ==
    LET m1 == [m EXCEPT ![po] = IF FGT(m[pi], mx) THEN mx ELSE m[pi]]
    IN  [m1 EXCEPT ![po] = IF FLT(m1[pi], mn) THEN mn ELSE m1[po]]
ScalarStore(m, po, pi, mn, mx) ==
    [m EXCEPT ![po] = ScalarClamp(m[pi], mn, mx)]

\* ------------------------------------------------------ SSE4.1 intrinsics
Lanes128 == 0..(SseWidth - 1)
mm_set1_ps(x) == [k \in Lanes128 |-> x]
mm_load_ps(m, p) == [k \in Lanes128 |-> m[p + k]]
mm_loadu_ps(m, p) == [k \in Lanes128 |-> m[p + k]]
mm_cmplt_ps(a, b) == [k \in Lanes128 |-> IF FLT(a[k], b[k]) THEN 15 ELSE 0]
\* Takes b's lane where the mask lane's top bit is set.
mm_blendv_ps_bug_inverted(a, b, mask) ==
    [k \in Lanes128 |-> IF mask[k] \div 8 = 1 THEN a[k] ELSE b[k]]
mm_blendv_ps(a, b, mask) ==
    [k \in Lanes128 |-> IF mask[k] \div 8 = 1 THEN b[k] ELSE a[k]]
mm_store_ps(m, p, v) ==
    [a \in DOMAIN m |-> IF a \in p..(p + SseWidth - 1) THEN v[a - p] ELSE m[a]]
mm_storeu_ps(m, p, v) ==
    [a \in DOMAIN m |-> IF a \in p..(p + SseWidth - 1) THEN v[a - p] ELSE m[a]]

\* The two compares and two blends of the 4-wide main loop.
sse4_1_select_bug_late_mask(res, vmin, vmax) ==
    LET max_mask == mm_cmplt_ps(vmax, res)
        res1 == mm_blendv_ps(res, vmax, max_mask)
        min_mask == mm_cmplt_ps(res1, vmin)
    IN  mm_blendv_ps(res1, vmin, min_mask)
sse4_1_select(res, vmin, vmax) ==
    LET max_mask == mm_cmplt_ps(vmax, res)
        min_mask == mm_cmplt_ps(res, vmin)
        res1 == mm_blendv_ps(res, vmax, max_mask)
    IN  mm_blendv_ps(res1, vmin, min_mask)

\* -------------------------------------------------------- AVX2 intrinsics
Lanes256 == 0..(AvxWidth - 1)
mm256_set1_ps(x) == [k \in Lanes256 |-> x]
mm256_load_ps(m, p) == [k \in Lanes256 |-> m[p + k]]
mm256_loadu_ps(m, p) == [k \in Lanes256 |-> m[p + k]]
\* _mm256_cmp_ps(a, b, _CMP_LT_OS): ordered less-than.
mm256_cmp_ps_LT_OS_bug_unordered(a, b) ==
    [k \in Lanes256 |-> IF IsNaN(a[k]) \/ IsNaN(b[k]) \/ FLT(a[k], b[k]) THEN 15 ELSE 0]
mm256_cmp_ps_LT_OS(a, b) ==
    [k \in Lanes256 |-> IF FLT(a[k], b[k]) THEN 15 ELSE 0]
mm256_blendv_ps(a, b, mask) ==
    [k \in Lanes256 |-> IF mask[k] \div 8 = 1 THEN b[k] ELSE a[k]]
mm256_store_ps(m, p, v) ==
    [a \in DOMAIN m |-> IF a \in p..(p + AvxWidth - 1) THEN v[a - p] ELSE m[a]]
mm256_storeu_ps(m, p, v) ==
    [a \in DOMAIN m |-> IF a \in p..(p + AvxWidth - 1) THEN v[a - p] ELSE m[a]]

\* The two compares and two blends of the 8-wide main loop.
avx2_select(res, vmin, vmax) ==
    LET max_mask == mm256_cmp_ps_LT_OS(vmax, res)
        min_mask == mm256_cmp_ps_LT_OS(res, vmin)
        res1 == mm256_blendv_ps(res, vmax, max_mask)
    IN  mm256_blendv_ps(res1, vmin, min_mask)

\* number = eighth_points * 8 / number = quarter_points * 4
TailStart_bug_no_scale(groups, w) == groups
TailStart(groups, w) == UintMul(groups, w)

\* ----------------------------------------------------------------- state
VARIABLES
    strategy,        \* the entry point called
    mem,             \* memory of the call
    in, out,         \* the pointer parameters, advanced by the loops
    min, max,        \* the bounds
    num_points,
    number,          \* loop counter
    eighth_points,   \* AVX2: num_points / 8
    quarter_points,  \* SSE4.1: num_points / 4
    pc,              \* "main" | "tail" | "done"
    \* the call as the caller made it
    mem0, in0, out0, alias,
    \* the same call made with out pointing at a buffer disjoint from in
    refmem,
    \* observations of the run
    rd,              \* addresses read
    mainWr, tailWr,  \* addresses written by the main loop / the scalar loop
    rewritten,       \* an address was written a second time
    ascending,       \* every write went above all earlier writes
    dirtyRead,       \* a read hit an address written earlier in the call
    mainIters, tailIters,
    wrapped          \* an unsigned operation wrapped around

callVars == <<strategy, min, max, num_points, eighth_points, quarter_points,
              mem0, in0, out0, alias>>
obsVars == <<rd, mainWr, tailWr, rewritten, ascending, dirtyRead,
             mainIters, tailIters, wrapped>>
vars == <<strategy, mem, in, out, min, max, num_points, number, eighth_points,
          quarter_points, pc, mem0, in0, out0, alias, refmem, rd, mainWr,
          tailWr, rewritten, ascending, dirtyRead, mainIters, tailIters,
          wrapped>>

\* The out pointer of the disjoint-buffer call, at the same position.
RefOut == BufCap + (out - out0)
RefOut0 == BufCap

\* Function entry: the parameters as passed, number = 0 and the group count.
Entry(s, n, mn, mx, seed, al, off) ==
    /\ strategy = s
    /\ num_points = n
    /\ min = mn
    /\ max = mx
    /\ alias = al
    /\ mem0 = InitialMemory(seed)
    /\ mem = mem0
    /\ refmem = mem0
    /\ in0 = off
    /\ out0 = IF al THEN off ELSE BufCap + off
    /\ in = in0
    /\ out = out0
    /\ number = 0
    /\ eighth_points = IF s \in {"a_avx2", "u_avx2"} THEN UintDiv(n, AvxWidth) ELSE 0
    /\ quarter_points = IF s \in {"a_sse4_1", "u_sse4_1"} THEN UintDiv(n, SseWidth) ELSE 0
    /\ pc = IF s = "generic" THEN "tail" ELSE "main"
    /\ rd = {}
    /\ mainWr = {}
    /\ tailWr = {}
    /\ rewritten = FALSE
    /\ ascending = TRUE
    /\ dirtyRead = FALSE
    /\ mainIters = 0
    /\ tailIters = 0
    /\ wrapped = FALSE

\* The aligned entry points are only called with aligned buffers.
Offsets(s) == IF s \in Aligned THEN {0} ELSE {0, 1}

Init ==
    \E s \in Strategies, n \in NumPointsSet, mn \in BoundFloats, mx \in BoundFloats,
       seed \in Seeds, al \in BOOLEAN :
        \E off \in Offsets(s) : Entry(s, n, mn, mx, seed, al, off)

\* What one loop iteration leaves in the observations.
Observe(R, W, phase) ==
    /\ rd' = rd \cup R
    /\ dirtyRead' = (dirtyRead \/ (R \cap (mainWr \cup tailWr)) # {})
    /\ rewritten' = (rewritten \/ (W \cap (mainWr \cup tailWr)) # {})
    /\ ascending' = (ascending /\ \A a \in W : \A b \in mainWr \cup tailWr : b < a)
    /\ mainWr' = IF phase = "main" THEN mainWr \cup W ELSE mainWr
    /\ tailWr' = IF phase = "tail" THEN tailWr \cup W ELSE tailWr
    /\ mainIters' = IF phase = "main" THEN mainIters + 1 ELSE mainIters
    /\ tailIters' = IF phase = "tail" THEN tailIters + 1 ELSE tailIters
    /\ wrapped' = (wrapped \/ number + 1 > UintMax)

\* One iteration of the scalar loop:
\*   *out++ = (*in > max) ? max : (*in < min) ? min : *in;  in++;  number++
ScalarIteration ==
    /\ mem' = ScalarStore(mem, out, in, min, max)
    /\ refmem' = ScalarStore(refmem, RefOut, in, min, max)
    /\ Observe({in}, {out}, "tail")
    /\ in' = in + 1
    /\ out' = out + 1
    /\ number' = UintAdd(number, 1)
    /\ UNCHANGED <<callVars, pc>>

\* The scalar loop's exit: the function returns.
Return ==
    /\ pc' = "done"
    /\ UNCHANGED <<callVars, obsVars, mem, refmem, in, out, number>>

\* ---------------------------------------------------------------- a_avx2
a_avx2_loop ==
    /\ strategy = "a_avx2" /\ pc = "main"
    /\ number < eighth_points
    /\ LET vmin == mm256_set1_ps(min)
           vmax == mm256_set1_ps(max)
       IN  /\ mem' = mm256_store_ps(mem, out,
                        avx2_select(mm256_load_ps(mem, in), vmin, vmax))
           /\ refmem' = mm256_store_ps(refmem, RefOut,
                        avx2_select(mm256_load_ps(refmem, in), vmin, vmax))
    /\ Observe(in..(in + AvxWidth - 1), out..(out + AvxWidth - 1), "main")
    /\ in' = in + AvxWidth
    /\ out' = out + AvxWidth
    /\ number' = UintAdd(number, 1)
    /\ UNCHANGED <<callVars, pc>>

\* The main loop's exit and number = eighth_points * 8.
a_avx2_tail_init ==
    /\ strategy = "a_avx2" /\ pc = "main"
    /\ ~(number < eighth_points)
    /\ number' = TailStart(eighth_points, AvxWidth)
    /\ wrapped' = (wrapped \/ eighth_points * AvxWidth > UintMax)
    /\ pc' = "tail"
    /\ UNCHANGED <<callVars, mem, refmem, in, out, rd, mainWr, tailWr,
                   rewritten, ascending, dirtyRead, mainIters, tailIters>>

a_avx2_tail ==
    /\ strategy = "a_avx2" /\ pc = "tail"
    /\ number < num_points
    /\ ScalarIteration

a_avx2_return ==
    /\ strategy = "a_avx2" /\ pc = "tail"
    /\ ~(number < num_points)
    /\ Return

\* -------------------------------------------------------------- a_sse4_1
a_sse4_1_loop ==
    /\ strategy = "a_sse4_1" /\ pc = "main"
    /\ number < quarter_points
    /\ LET vmin == mm_set1_ps(min)
           vmax == mm_set1_ps(max)
       IN  /\ mem' = mm_store_ps(mem, out,
                        sse4_1_select(mm_load_ps(mem, in), vmin, vmax))
           /\ refmem' = mm_store_ps(refmem, RefOut,
                        sse4_1_select(mm_load_ps(refmem, in), vmin, vmax))
    /\ Observe(in..(in + SseWidth - 1), out..(out + SseWidth - 1), "main")
    /\ in' = in + SseWidth
    /\ out' = out + SseWidth
    /\ number' = UintAdd(number, 1)
    /\ UNCHANGED <<callVars, pc>>

\* The main loop's exit and number = quarter_points * 4.
a_sse4_1_tail_init ==
    /\ strategy = "a_sse4_1" /\ pc = "main"
    /\ ~(number < quarter_points)
    /\ number' = TailStart(quarter_points, SseWidth)
    /\ wrapped' = (wrapped \/ quarter_points * SseWidth > UintMax)
    /\ pc' = "tail"
    /\ UNCHANGED <<callVars, mem, refmem, in, out, rd, mainWr, tailWr,
                   rewritten, ascending, dirtyRead, mainIters, tailIters>>

a_sse4_1_tail ==
    /\ strategy = "a_sse4_1" /\ pc = "tail"
    /\ number < num_points
    /\ ScalarIteration

a_sse4_1_return ==
    /\ strategy = "a_sse4_1" /\ pc = "tail"
    /\ ~(number < num_points)
    /\ Return

\* ---------------------------------------------------------------- u_avx2
u_avx2_loop ==
    /\ strategy = "u_avx2" /\ pc = "main"
    /\ number < eighth_points
    /\ LET vmin == mm256_set1_ps(min)
           vmax == mm256_set1_ps(max)
       IN  /\ mem' = mm256_storeu_ps(mem, out,
                        avx2_select(mm256_loadu_ps(mem, in), vmin, vmax))
           /\ refmem' = mm256_storeu_ps(refmem, RefOut,
                        avx2_select(mm256_loadu_ps(refmem, in), vmin, vmax))
    /\ Observe(in..(in + AvxWidth - 1), out..(out + AvxWidth - 1), "main")
    /\ in' = in + AvxWidth
    /\ out' = out + AvxWidth
    /\ number' = UintAdd(number, 1)
    /\ UNCHANGED <<callVars, pc>>

\* The main loop's exit and number = eighth_points * 8.
u_avx2_tail_init ==
    /\ strategy = "u_avx2" /\ pc = "main"
    /\ ~(number < eighth_points)
    /\ number' = TailStart(eighth_points, AvxWidth)
    /\ wrapped' = (wrapped \/ eighth_points * AvxWidth > UintMax)
    /\ pc' = "tail"
    /\ UNCHANGED <<callVars, mem, refmem, in, out, rd, mainWr, tailWr,
                   rewritten, ascending, dirtyRead, mainIters, tailIters>>

u_avx2_tail ==
    /\ strategy = "u_avx2" /\ pc = "tail"
    /\ number < num_points
    /\ ScalarIteration

u_avx2_return ==
    /\ strategy = "u_avx2" /\ pc = "tail"
    /\ ~(number < num_points)
    /\ Return

\* -------------------------------------------------------------- u_sse4_1
u_sse4_1_loop ==
    /\ strategy = "u_sse4_1" /\ pc = "main"
    /\ number < quarter_points
    /\ LET vmin == mm_set1_ps(min)
           vmax == mm_set1_ps(max)
       IN  /\ mem' = mm_storeu_ps(mem, out,
                        sse4_1_select(mm_loadu_ps(mem, in), vmin, vmax))
           /\ refmem' = mm_storeu_ps(refmem, RefOut,
                        sse4_1_select(mm_loadu_ps(refmem, in), vmin, vmax))
    /\ Observe(in..(in + SseWidth - 1), out..(out + SseWidth - 1), "main")
    /\ in' = in + SseWidth
    /\ out' = out + SseWidth
    /\ number' = UintAdd(number, 1)
    /\ UNCHANGED <<callVars, pc>>

\* The main loop's exit and number = quarter_points * 4.
u_sse4_1_tail_init ==
    /\ strategy = "u_sse4_1" /\ pc = "main"
    /\ ~(number < quarter_points)
    /\ number' = TailStart(quarter_points, SseWidth)
    /\ wrapped' = (wrapped \/ quarter_points * SseWidth > UintMax)
    /\ pc' = "tail"
    /\ UNCHANGED <<callVars, mem, refmem, in, out, rd, mainWr, tailWr,
                   rewritten, ascending, dirtyRead, mainIters, tailIters>>

u_sse4_1_tail ==
    /\ strategy = "u_sse4_1" /\ pc = "tail"
    /\ number < num_points
    /\ ScalarIteration

u_sse4_1_return ==
    /\ strategy = "u_sse4_1" /\ pc = "tail"
    /\ ~(number < num_points)
    /\ Return

\* --------------------------------------------------------------- generic
generic_loop ==
    /\ strategy = "generic" /\ pc = "tail"
    /\ number < num_points
    /\ ScalarIteration

generic_return ==
    /\ strategy = "generic" /\ pc = "tail"
    /\ ~(number < num_points)
    /\ Return

Next ==
    \/ a_avx2_loop \/ a_avx2_tail_init \/ a_avx2_tail \/ a_avx2_return
    \/ a_sse4_1_loop \/ a_sse4_1_tail_init \/ a_sse4_1_tail \/ a_sse4_1_return
    \/ u_avx2_loop \/ u_avx2_tail_init \/ u_avx2_tail \/ u_avx2_return
    \/ u_sse4_1_loop \/ u_sse4_1_tail_init \/ u_sse4_1_tail \/ u_sse4_1_return
    \/ generic_loop \/ generic_return

Spec == Init /\ [][Next]_vars

\* Control flow does not depend on the data: the termination check runs every
\* strategy, length, aliasing and alignment with one pair of bounds.
TermInit ==
    \E s \in Strategies, n \in NumPointsSet, al \in BOOLEAN :
        \E off \in Offsets(s) : Entry(s, n, F_m1_5, F_1_5, 0, al, off)

\* A call is one thread running to its return: a step that can be taken is taken.
TermSpec == TermInit /\ [][Next]_vars /\ WF_vars(Next)

\* ================================================================ claims
Done == pc = "done"
\* a <= b and a == b on float: false when an operand is NaN; -0 == +0.
FLE(a, b) == ~IsNaN(a) /\ ~IsNaN(b) /\ Key(a) <= Key(b)
FEQ(a, b) == ~IsNaN(a) /\ ~IsNaN(b) /\ Key(a) = Key(b)
Vector == strategy # "generic"
Idx == 0..(num_points - 1)
\* Element i of the input array as passed, and of the output array now.
In(i) == mem0[in0 + i]
Out(i) == mem[out0 + i]
\* First index the main loop of the called strategy does not handle.
MainEnd == Width(strategy) * (num_points \div Width(strategy))
MainIdx == IF Vector THEN 0..(MainEnd - 1) ELSE {}
TailIdx == IF Vector THEN MainEnd..(num_points - 1) ELSE {}
OutRange == {out0 + i : i \in Idx}
InRange == {in0 + i : i \in Idx}
\* min > max does not hold: min <= max, or a bound is NaN.
BoundsOrdered == ~FGT(min, max)

\* y is the clamp of x as the contract words it.
ClampContract(x, y) ==
    /\ FGT(x, max) => y = max
    /\ (FLT(x, min) /\ ~FGT(x, max)) => y = min
    /\ (~FGT(x, max) /\ ~FLT(x, min)) => y = x

\* C1 (as claimed): after the call of any strategy, with any min and max,
\* every output element is max where the input exceeds max, else min where
\* the input is below min, else the input itself.
C1_AsClaimed == Done => \A i \in Idx : ClampContract(In(i), Out(i))

\* C1 (amended): the same, for the generic strategy with any min and max and
\* for the vector strategies unless min > max.
C1_ClampCorrect ==
    (Done /\ (~Vector \/ BoundsOrdered)) =>
        \A i \in Idx : ClampContract(In(i), Out(i))

\* The documented example, run by a 4-wide strategy.
C1_Witness ==
    /\ Done /\ strategy = "a_sse4_1" /\ num_points = 4
    /\ min = F_m1_5 /\ max = F_1_5
    /\ <<In(0), In(1), In(2), In(3)>> = <<F_m2, F_m1, F_1, F_2>>
    /\ <<Out(0), Out(1), Out(2), Out(3)>> = <<F_m1_5, F_m1, F_1, F_1_5>>

\* The generic function run as a whole on memory m: n scalar iterations.
RECURSIVE GenericRun(_, _, _, _, _, _)
GenericRun(m, pi, po, mn, mx, n) ==
    IF n = 0 THEN m
    ELSE GenericRun(ScalarStore(m, po, pi, mn, mx), pi + 1, po + 1, mn, mx, n - 1)

\* Output array of the generic strategy for the call's input, min and max.
GenericOutput ==
    LET m == GenericRun(mem0, in0, RefOut0, min, max, num_points)
    IN  [i \in Idx |-> m[RefOut0 + i]]

\* C2 (as claimed): every strategy's output array is the generic strategy's
\* output array for the same input, min and max, however min and max relate.
C2_AsClaimed == Done => [i \in Idx |-> Out(i)] = GenericOutput

\* C2 (amended): every strategy's output array is the generic strategy's
\* output array for the same input, min and max, unless min > max.
C2_Substitutable ==
    (Done /\ (~Vector \/ BoundsOrdered)) => [i \in Idx |-> Out(i)] = GenericOutput

\* An 8-wide call with a tail, min < max, that changed its output.
C2_Witness ==
    /\ Done /\ strategy = "u_avx2" /\ num_points > AvxWidth
    /\ FLT(min, max)
    /\ \E i \in MainIdx : Out(i) # In(i)
    /\ \E i \in TailIdx : Out(i) # In(i)

\* C3: in every strategy a NaN input element gives a NaN output element.
C3_NaNPassthrough == Done => \A i \in Idx : IsNaN(In(i)) => IsNaN(Out(i))

\* A vector call with a NaN in the main loop and a NaN in the tail, and
\* bounds that clamp something.
C3_Witness ==
    /\ Done /\ Vector /\ FLT(min, max)
    /\ \E i \in MainIdx : IsNaN(In(i))
    /\ \E i \in TailIdx : IsNaN(In(i))
    /\ \E i \in Idx : Out(i) # In(i)

\* C4 (as claimed): in every strategy, with any min and max, an input element
\* equal to min or to max is left unchanged.
C4_AsClaimed ==
    Done => \A i \in Idx :
        (FEQ(In(i), min) \/ FEQ(In(i), max)) => Out(i) = In(i)

\* C4 (amended): in every strategy, unless min > max, an input element equal
\* to min or to max is left unchanged.
C4_BoundaryEquality ==
    (Done /\ BoundsOrdered) => \A i \in Idx :
        (FEQ(In(i), min) \/ FEQ(In(i), max)) => Out(i) = In(i)

\* A vector call, min < max, with an element equal to min in the main loop
\* and an element equal to max in the tail.
C4_Witness ==
    /\ Done /\ Vector /\ FLT(min, max)
    /\ \E i \in MainIdx : FEQ(In(i), min)
    /\ \E i \in TailIdx : FEQ(In(i), max)

\* C5: a call with out == in leaves in that storage the array the call with
\* disjoint buffers writes to out, and no read of the call sees an address
\* the call wrote before.
C5_InPlace ==
    /\ ~dirtyRead
    /\ (Done /\ alias) => \A i \in Idx : mem[out0 + i] = refmem[RefOut0 + i]

\* An in-place 8-wide call with a tail that changed the buffer in both loops.
C5_Witness ==
    /\ Done /\ alias /\ strategy = "a_avx2" /\ num_points > AvxWidth
    /\ \E i \in MainIdx : mem[in0 + i] # mem0[in0 + i]
    /\ \E i \in TailIdx : mem[in0 + i] # mem0[in0 + i]

\* The value the main loop of the called strategy gives input element i:
\* lane 0 of the vector loaded at that element.
MainLoopValue(i) ==
    IF Width(strategy) = SseWidth
    THEN sse4_1_select(mm_loadu_ps(mem0, in0 + i), mm_set1_ps(min), mm_set1_ps(max))[0]
    ELSE avx2_select(mm256_loadu_ps(mem0, in0 + i), mm256_set1_ps(min), mm256_set1_ps(max))[0]

\* The main loop wrote exactly [0, W*floor(n/W)), the tail exactly the rest,
\* no index twice, in ascending order.
Partition ==
    /\ mainWr = {out0 + i : i \in MainIdx}
    /\ tailWr = {out0 + i : i \in TailIdx}
    /\ ~rewritten
    /\ ascending

\* C6 (as claimed): in a vector strategy the main loop and the tail split
\* [0, num_points) as above, and a tail element gets the value the main loop
\* would have given it, with any min and max.
C6_AsClaimed ==
    (Done /\ Vector) =>
        /\ Partition
        /\ \A i \in TailIdx : Out(i) = MainLoopValue(i)

\* C6 (amended): the split holds always; a tail element gets the value the
\* main loop would have given it unless min > max.
C6_TailCorrect ==
    (Done /\ Vector) =>
        /\ Partition
        /\ BoundsOrdered => \A i \in TailIdx : Out(i) = MainLoopValue(i)

\* A vector call with main-loop iterations and a tail that clamped an element.
C6_Witness ==
    /\ Done /\ Vector /\ BoundsOrdered
    /\ MainIdx # {}
    /\ \E i \in TailIdx : Out(i) # In(i)

\* C7: with disjoint buffers the call changes no address outside
\* out[0, num_points), writes only there and reads only in[0, num_points);
\* with num_points = 0 it reads and writes nothing.
C7_Footprint ==
    ~alias =>
        /\ \A a \in Addrs : a \notin OutRange => mem[a] = mem0[a]
        /\ (mainWr \cup tailWr) \subseteq OutRange
        /\ rd \subseteq InRange
        /\ num_points = 0 => (rd = {} /\ mainWr \cup tailWr = {} /\ mem = mem0)

\* A finished 8-wide call with disjoint buffers and a tail, that read all of
\* its input and wrote all of its output.
C7_Witness ==
    /\ Done /\ ~alias /\ strategy = "u_avx2"
    /\ num_points > AvxWidth /\ num_points % AvxWidth # 0
    /\ rd = InRange /\ mainWr \cup tailWr = OutRange
    /\ mem # mem0

\* The lane result of the two-stage select: both tests on the loaded value,
\* the min replacement overriding the max replacement.
TwoStage(x) == IF FLT(x, min) THEN min ELSE IF FLT(max, x) THEN max ELSE x

\* C8: a main-loop lane holds the two-stage select of its loaded value, and,
\* when min <= max, that is the scalar reference's value for it.
C8_TwoStageSelect ==
    (Done /\ Vector) => \A i \in MainIdx :
        /\ Out(i) = TwoStage(In(i))
        /\ FLE(min, max) => Out(i) = ScalarClamp(In(i), min, max)

\* A vector call, min <= max, whose main loop saw a NaN, a value above max
\* and a value below min.
C8_Witness ==
    /\ Done /\ Vector /\ FLE(min, max)
    /\ \E i \in MainIdx : IsNaN(In(i))
    /\ \E i \in MainIdx : FGT(In(i), max)
    /\ \E i \in MainIdx : FLT(In(i), min)

\* C9: if min <= max (so neither is NaN), every output element whose input
\* is not NaN lies in [min, max].
C9_Range ==
    (Done /\ FLE(min, max)) => \A i \in Idx :
        ~IsNaN(In(i)) => (FLE(min, Out(i)) /\ FLE(Out(i), max))

\* A call with min < max that found values outside the interval on both sides.
C9_Witness ==
    /\ Done /\ FLT(min, max)
    /\ \E i \in Idx : FGT(In(i), max)
    /\ \E i \in Idx : FLT(In(i), min)

\* Iterations a finished call has made.
IterationCounts ==
    /\ Vector => (mainIters = num_points \div Width(strategy)
                  /\ tailIters = num_points % Width(strategy))
    /\ ~Vector => (mainIters = 0 /\ tailIters = num_points)
    /\ number = num_points

\* C10: every call returns, after floor(num_points / W) main-loop iterations
\* and num_points mod W scalar iterations (generic: num_points iterations),
\* and no unsigned operation wraps.
C10_Terminates ==
    /\ <>Done
    /\ [](Done => IterationCounts)
    /\ []~wrapped

\* An 8-wide call with the largest num_points, returned.
C10_Witness ==
    /\ Done /\ strategy = "u_avx2" /\ num_points = UintMax
    /\ mainIters = UintMax \div AvxWidth
    /\ tailIters = AvxWidth - 1

====
